---- MODULE Spec2Model ----
(***************************************************************************)
(* Relationship ledger of the family tree application                      *)
(* (src/family_tree_app.py): the family_members and relationships tables,  *)
(* the functions that mutate them and the pages that call those functions. *)
(***************************************************************************)
EXTENDS Integers, Sequences, FiniteSets, TLC

\* ------------------------------------------------------------------ bounds
\* Highest family_members.id the AUTOINCREMENT sequence may hand out.
MaxMemberId == 2
\* Highest relationships.id the AUTOINCREMENT sequence may hand out.
MaxRelId == 2
\* The same two caps in the specification of one larger family.
MaxFamilyMemberId == 3
MaxFamilyRelId == 2
\* Longest run of inverse-label lookups one page render performs.
MaxLookups == 2
\* The two AUTOINCREMENT caps in the specification of the calls statement by
\* statement.
MaxTxnMemberId == 2
MaxTxnRelId == 2
\* The cap on relationships.id in the specification of two accounts.
MaxScopeRelId == 4
\* The two AUTOINCREMENT caps in the specification of export and import.
MaxExportMemberId == 2
MaxExportRelId == 2
\* Members and add_relationship calls of the ledgers whose order is looked at,
\* and the last second of the clock that stamps created_at.
MaxOrderMemberId == 3
MaxOrderRelationships == 2
MaxClock == 1
\* Members and add_relationship calls of the ledgers the Statistics page is given.
MaxGenMemberId == 4
MaxGenRelationships == 3

\* ------------------------------------------------------------- vocabulary
\* users.id of the accounts that are logged in (st.session_state.user_id).
Users == {1, 2}

\* Browser sessions, each a script thread of the one Streamlit process.
Sessions == {1, 2}

\* A session that is inside no call: no connection, nothing uncommitted.
idle_session ==
    [pc |-> "idle", user_id |-> 0, a |-> 0, b |-> 0, relationship_type |-> "",
     notes |-> "", fetched |-> "None", linked_id |-> 0, txn |-> FALSE,
     inserted |-> {}, deleted |-> {}, deleted_members |-> {}]

\* SQL NULL in relationships.linked_relationship_id (ids start at 1).
NULL == 0

\* The options of the "Relationship type" selectbox.
RelationshipTypes ==
    {"spouse", "parent", "child", "sibling", "grandparent", "grandchild",
     "aunt-uncle", "niece-nephew", "cousin", "in-law", "other"}

\* The values of the "Relationship notes (optional)" text input that are told apart.
Notes == {""}

\* Strings get_inverse_relationship can be handed: the closed set and some outside it.
TypeInputs == RelationshipTypes \cup {"PARENT", "Spouse", "friend", ""}

\* selected_person_id before a row of the tree is selected and after
\* clear_person_details.
None == "None"

VARIABLES
    family_members,   \* rows of table family_members: [id, user_id]
    relationships,    \* rows of table relationships
    member_seq,       \* sqlite_sequence of family_members (last id handed out)
    rel_seq,          \* sqlite_sequence of relationships (last id handed out)
    last,             \* the last call made by a page and what it returned
    lookups,          \* the inverse labels computed by the page being rendered
    rendered,         \* what the page rendered last has put on the screen
    sessions,         \* per browser session: the call it is inside and its connection
    neo4j,            \* genealog.py: the graph database behind self.driver
    selected_person_id \* genealog.py: GenealogyApp.selected_person_id

vars == <<family_members, relationships, member_seq, rel_seq, last, lookups, rendered,
          sessions, neo4j, selected_person_id>>

\* The state of the desktop front-end (genealog.py), which the web application
\* (family_tree_app.py) never touches.
desktop_vars == <<neo4j, selected_person_id>>

\* --------------------------------------------------------------- registry
inverse_map ==
    [t \in RelationshipTypes |->
        CASE t = "spouse" -> "spouse"
          [] t = "parent" -> "child"
          [] t = "child" -> "parent"
          [] t = "sibling" -> "sibling"
          [] t = "grandparent" -> "grandchild"
          [] t = "grandchild" -> "grandparent"
          [] t = "aunt-uncle" -> "niece-nephew"
          [] t = "niece-nephew" -> "aunt-uncle"
          [] t = "cousin" -> "cousin"
          [] t = "in-law" -> "in-law"
          [] t = "other" -> "other"]

\* Mutation of get_inverse_relationship: the default is the input itself,
\* inverse_map.get(relationship_type, relationship_type).
get_inverse_relationship_default_self(relationship_type) ==
    IF relationship_type \in DOMAIN inverse_map
    THEN inverse_map[relationship_type]
    ELSE relationship_type

\* inverse_map.get(relationship_type, 'other')
get_inverse_relationship(relationship_type) ==
    IF relationship_type \in DOMAIN inverse_map
    THEN inverse_map[relationship_type]
    ELSE "other"

\* Mutation of inverse_is_inserted: the list of symmetric types is left out.
inverse_is_inserted_asymmetric_only(relationship_type) ==
    relationship_type /= get_inverse_relationship(relationship_type)

\* The condition under which add_relationship inserts the inverse row.
inverse_is_inserted(relationship_type) ==
    \/ relationship_type /= get_inverse_relationship(relationship_type)
    \/ relationship_type \in {"spouse", "sibling", "cousin"}

\* ------------------------------------------------------------------ reads
\* members_df['id'].tolist() of get_user_family_members(user_id)
member_ids(user_id) ==
    {m.id : m \in {x \in family_members : x.user_id = user_id}}

\* Mutation of existing_between: only the direction asked for is looked up.
existing_between_forward_only(user_id, from_member_id, to_member_id) ==
    {r \in relationships :
        /\ r.user_id = user_id
        /\ r.from_member_id = from_member_id /\ r.to_member_id = to_member_id}

\* Mutation of existing_between: only the opposite direction is looked up.
existing_between_reverse_only(user_id, from_member_id, to_member_id) ==
    {r \in relationships :
        /\ r.user_id = user_id
        /\ r.from_member_id = to_member_id /\ r.to_member_id = from_member_id}

\* The rows the duplicate check of add_relationship selects.
existing_between(user_id, from_member_id, to_member_id) ==
    {r \in relationships :
        /\ r.user_id = user_id
        /\ \/ (r.from_member_id = from_member_id /\ r.to_member_id = to_member_id)
           \/ (r.from_member_id = to_member_id /\ r.to_member_id = from_member_id)}

\* get_user_relationships(user_id): the rows of the user joined to both members.
get_user_relationships(user_id) ==
    {r \in relationships :
        /\ r.user_id = user_id
        /\ \E m \in family_members : m.id = r.from_member_id
        /\ \E m \in family_members : m.id = r.to_member_id}

\* relationships_df[relationships_df['is_primary'] == True]
primary_relationships(user_id) ==
    {r \in get_user_relationships(user_id) : r.is_primary}

\* ----------------------------------------------------------------- writes
\* The row add_relationship inserts first.
primary_row(id, user_id, from_member_id, to_member_id, relationship_type, notes) ==
    [id |-> id, user_id |-> user_id,
     from_member_id |-> from_member_id, to_member_id |-> to_member_id,
     relationship_type |-> relationship_type, notes |-> notes,
     is_primary |-> TRUE, linked_relationship_id |-> NULL]

\* Mutation of inverse_row: the endpoints are not swapped.
inverse_row_not_swapped(id, user_id, from_member_id, to_member_id, relationship_type, notes, primary_id) ==
    [id |-> id, user_id |-> user_id,
     from_member_id |-> from_member_id, to_member_id |-> to_member_id,
     relationship_type |-> get_inverse_relationship(relationship_type), notes |-> notes,
     is_primary |-> FALSE, linked_relationship_id |-> primary_id]

\* Mutation of inverse_row: the inverse row carries the type of the primary row.
inverse_row_same_type(id, user_id, from_member_id, to_member_id, relationship_type, notes, primary_id) ==
    [id |-> id, user_id |-> user_id,
     from_member_id |-> to_member_id, to_member_id |-> from_member_id,
     relationship_type |-> relationship_type, notes |-> notes,
     is_primary |-> FALSE, linked_relationship_id |-> primary_id]

\* The row add_relationship inserts second.
inverse_row(id, user_id, from_member_id, to_member_id, relationship_type, notes, primary_id) ==
    [id |-> id, user_id |-> user_id,
     from_member_id |-> to_member_id, to_member_id |-> from_member_id,
     relationship_type |-> get_inverse_relationship(relationship_type), notes |-> notes,
     is_primary |-> FALSE, linked_relationship_id |-> primary_id]

\* The rows add_relationship commits when the duplicate check finds nothing.
add_relationship_rows(user_id, from_member_id, to_member_id, relationship_type, notes) ==
    LET primary_id == rel_seq + 1 IN
    {primary_row(primary_id, user_id, from_member_id, to_member_id,
                 relationship_type, notes)}
    \cup
    (IF inverse_is_inserted(relationship_type)
     THEN {inverse_row(primary_id + 1, user_id, from_member_id, to_member_id,
                       relationship_type, notes, primary_id)}
     ELSE {})

\* Mutation of delete_relationship_rows: an inverse row is deleted alone.
delete_relationship_rows_inverse_alone(user_id, relationship_id) ==
    LET result == {r \in relationships :
                      r.user_id = user_id /\ r.id = relationship_id} IN
    IF result = {} THEN {}
    ELSE LET row == CHOOSE r \in result : TRUE IN
         IF row.is_primary
         THEN {r \in relationships :
                  /\ r.user_id = user_id
                  /\ (r.id = relationship_id
                      \/ r.linked_relationship_id = relationship_id)}
         ELSE result

\* Mutation of delete_relationship_rows: a primary row is deleted alone.
delete_relationship_rows_primary_alone(user_id, relationship_id) ==
    LET result == {r \in relationships :
                      r.user_id = user_id /\ r.id = relationship_id} IN
    IF result = {} THEN {}
    ELSE LET row == CHOOSE r \in result : TRUE IN
         IF row.is_primary
         THEN result
         ELSE {r \in relationships :
                  /\ r.user_id = user_id
                  /\ (r.id = relationship_id
                      \/ r.id = row.linked_relationship_id)}

\* Mutation of delete_relationship_rows: the statements leave out user_id = ?.
delete_relationship_rows_any_user(user_id, relationship_id) ==
    LET result == {r \in relationships : r.id = relationship_id} IN
    IF result = {} THEN {}
    ELSE LET row == CHOOSE r \in result : TRUE IN
         IF row.is_primary
         THEN {r \in relationships :
                  r.id = relationship_id \/ r.linked_relationship_id = relationship_id}
         ELSE {r \in relationships :
                  r.id = relationship_id \/ r.id = row.linked_relationship_id}

\* The rows the DELETE statement of delete_relationship removes.
delete_relationship_rows(user_id, relationship_id) ==
    LET result == {r \in relationships :
                      r.user_id = user_id /\ r.id = relationship_id} IN
    IF result = {} THEN {}
    ELSE LET row == CHOOSE r \in result : TRUE IN
         IF row.is_primary
         THEN {r \in relationships :
                  /\ r.user_id = user_id
                  /\ (r.id = relationship_id
                      \/ r.linked_relationship_id = relationship_id)}
         ELSE {r \in relationships :
                  /\ r.user_id = user_id
                  /\ (r.id = relationship_id
                      \/ r.id = row.linked_relationship_id)}

\* Mutation of delete_family_member_rows: only the rows that start at the member.
delete_family_member_rows_from_only(user_id, member_id) ==
    {r \in relationships :
        r.user_id = user_id /\ r.from_member_id = member_id}

\* The rows the first DELETE statement of delete_family_member removes.
delete_family_member_rows(user_id, member_id) ==
    {r \in relationships :
        /\ r.user_id = user_id
        /\ (r.from_member_id = member_id \/ r.to_member_id = member_id)}

\* Mutation of to_member_options: the first person is offered too.
to_member_options_unfiltered(user_id, from_member) ==
    member_ids(user_id)

\* The options of the "Select second person" selectbox.
to_member_options(user_id, from_member) ==
    {m \in member_ids(user_id) : m /= from_member}

\* ------------------------------------------------------------------ views
\* create_family_tree_graph: the rows G.add_edge is called with.
graph_edge_rows(user_id) ==
    {r \in get_user_relationships(user_id) : r.is_primary}

\* G.edges of the nx.Graph: undirected, one edge per unordered pair of nodes.
graph_edges(user_id) ==
    {{r.from_member_id, r.to_member_id} : r \in graph_edge_rows(user_id)}

\* G.nodes: one G.add_node per row of members_df, and the endpoints G.add_edge
\* adds when they are not nodes yet.
graph_nodes(user_id) ==
    member_ids(user_id) \cup UNION graph_edges(user_id)

\* The 'relationship' attribute of edge e: the one of the last G.add_edge for
\* that pair of nodes, the rows being added in the order they were inserted.
graph_edge_relationship(user_id, e) ==
    LET rows == {r \in graph_edge_rows(user_id) :
                    {r.from_member_id, r.to_member_id} = e}
        newest == CHOOSE r \in rows : \A o \in rows : o.id <= r.id IN
    newest.relationship_type

\* Mutation of graph_edge_info: the type is printed on both sides.
graph_edge_info_no_inverse(user_id, e) ==
    LET rel_type == graph_edge_relationship(user_id, e) IN
    rel_type \o " ↔ " \o rel_type

\* edge_info: f"{rel_type} ↔ {inverse_type}"
graph_edge_info(user_id, e) ==
    LET rel_type == graph_edge_relationship(user_id, e)
        inverse_type == get_inverse_relationship(rel_type) IN
    rel_type \o " ↔ " \o inverse_type

\* create_family_tree_graph(user_id): None (no figure) for a user without
\* members, else the figure drawn from G.
create_family_tree_graph(user_id) ==
    IF member_ids(user_id) = {}
    THEN [fig |-> FALSE, nodes |-> {}, edges |-> {}, edge_info |-> <<>>]
    ELSE [fig |-> TRUE,
          nodes |-> graph_nodes(user_id),
          edges |-> graph_edges(user_id),
          edge_info |-> [e \in graph_edges(user_id) |-> graph_edge_info(user_id, e)]]

\* Mutation of total_relationships: every row of relationships_df is counted.
total_relationships_all_rows(user_id) ==
    Cardinality(get_user_relationships(user_id))

\* Statistics page: len(relationships_df[relationships_df['is_primary'] == True])
total_relationships(user_id) ==
    Cardinality({r \in get_user_relationships(user_id) : r.is_primary})

\* The rows of a DataFrame as a sequence, in the order they were inserted
\* (ORDER BY r.created_at; the Statistics page does not depend on how rows of
\* one second are ordered).
RECURSIVE rows_by_id(_)
rows_by_id(rows) ==
    IF rows = {} THEN <<>>
    ELSE LET first == CHOOSE r \in rows : \A o \in rows : r.id <= o.id IN
         <<first>> \o rows_by_id(rows \ {first})

\* Mutation of parent_relationships: the is_primary condition is left out.
parent_relationships_any_role(user_id) ==
    {r \in get_user_relationships(user_id) : r.relationship_type = "parent"}

\* Generation Analysis: the rows of type 'parent' that are primary.
parent_relationships(user_id) ==
    {r \in get_user_relationships(user_id) :
        r.relationship_type = "parent" /\ r.is_primary}

\* set(parent_relationships['to_member_id'].tolist())
children_ids(user_id) ==
    {r.to_member_id : r \in parent_relationships(user_id)}

\* all_member_ids - children_ids
root_generation(user_id) ==
    member_ids(user_id) \ children_ids(user_id)

\* Mutation of children_of_root: the column taken is from_member_id.
children_of_root_from_member_id(user_id) ==
    LET rows == rows_by_id({r \in parent_relationships(user_id) :
                               r.from_member_id \in root_generation(user_id)}) IN
    [i \in 1..Len(rows) |-> rows[i].from_member_id]

\* parent_relationships[from_member_id.isin(root_generation)]['to_member_id']
\* .tolist(): one entry per row, in the order of the rows.
children_of_root(user_id) ==
    LET rows == rows_by_id({r \in parent_relationships(user_id) :
                               r.from_member_id \in root_generation(user_id)}) IN
    [i \in 1..Len(rows) |-> rows[i].to_member_id]

\* One call of a page into the data layer: its arguments, what its SELECT fetched
\* ("None", "row", "primary" or "inverse"), how many rows it wrote or removed, and
\* what it returned to the page.
Call(op, user_id, a, b, relationship_type, fetched, rowcount, ret) ==
    [op |-> op, user_id |-> user_id, a |-> a, b |-> b,
     relationship_type |-> relationship_type, fetched |-> fetched,
     rowcount |-> rowcount, ret |-> ret]

\* ---------------------------------------------------------------- actions
Init ==
    /\ family_members = {}
    /\ relationships = {}
    /\ member_seq = 0
    /\ rel_seq = 0
    /\ last = Call("none", 0, 0, 0, "", "None", 0, "None")
    /\ lookups = <<>>
    /\ rendered = [page |-> "none"]
    /\ sessions = [s \in Sessions |-> idle_session]
    /\ neo4j = [Person |-> {}, relationships |-> {}, seq |-> 0]
    /\ selected_person_id = None

\* "Add Member" on the Add/Edit Members page: add_family_member(user_id, member_data).
AddMember(user_id) ==
    /\ family_members' = family_members \cup {[id |-> member_seq + 1, user_id |-> user_id]}
    /\ member_seq' = member_seq + 1
    /\ last' = Call("add_family_member", user_id, member_seq + 1, 0, "", "None", 1, "id")
    /\ UNCHANGED <<relationships, rel_seq, lookups, rendered, sessions>>
    /\ UNCHANGED desktop_vars

\* "Delete <name>" on the Family Members page: delete_family_member(user_id, member['id']).
DeleteMember(user_id, member_id) ==
    /\ member_id \in member_ids(user_id)
    /\ relationships' = relationships \ delete_family_member_rows(user_id, member_id)
    /\ family_members' = {m \in family_members :
                             ~(m.user_id = user_id /\ m.id = member_id)}
    /\ last' = Call("delete_family_member", user_id, member_id, 0, "", "None",
                    Cardinality(delete_family_member_rows(user_id, member_id)), "None")
    /\ UNCHANGED <<member_seq, rel_seq, lookups, rendered, sessions>>
    /\ UNCHANGED desktop_vars

\* Mutation of AddRelationship: a duplicate is not turned away untouched, the
\* rows found take the type and the notes of the new call (an upsert).
AddRelationship_upsert(user_id, from_member, to_member, relationship_type, notes) ==
    /\ Cardinality(member_ids(user_id)) >= 2
    /\ from_member \in member_ids(user_id)
    /\ to_member \in to_member_options(user_id, from_member)
    /\ IF existing_between(user_id, from_member, to_member) /= {}
       THEN /\ last' = Call("add_relationship", user_id, from_member, to_member,
                            relationship_type, "row", 0, "False")
            /\ relationships' =
                  (relationships \ existing_between(user_id, from_member, to_member))
                  \cup {[r EXCEPT !.relationship_type = relationship_type,
                                  !.notes = notes] :
                           r \in existing_between(user_id, from_member, to_member)}
            /\ UNCHANGED rel_seq
       ELSE LET rows == add_relationship_rows(user_id, from_member, to_member,
                                              relationship_type, notes) IN
            /\ relationships' = relationships \cup rows
            /\ rel_seq' = rel_seq + Cardinality(rows)
            /\ last' = Call("add_relationship", user_id, from_member, to_member,
                            relationship_type, "None", Cardinality(rows), "True")
    /\ UNCHANGED <<family_members, member_seq, lookups, rendered, sessions>>
    /\ UNCHANGED desktop_vars

\* "Add Relationship" on the Relationships page: the form and add_relationship.
AddRelationship(user_id, from_member, to_member, relationship_type, notes) ==
    /\ Cardinality(member_ids(user_id)) >= 2
    /\ from_member \in member_ids(user_id)
    /\ to_member \in to_member_options(user_id, from_member)
    /\ IF existing_between(user_id, from_member, to_member) /= {}
       THEN /\ last' = Call("add_relationship", user_id, from_member, to_member,
                            relationship_type, "row", 0, "False")
            /\ UNCHANGED <<relationships, rel_seq>>
       ELSE LET rows == add_relationship_rows(user_id, from_member, to_member,
                                              relationship_type, notes) IN
            /\ relationships' = relationships \cup rows
            /\ rel_seq' = rel_seq + Cardinality(rows)
            /\ last' = Call("add_relationship", user_id, from_member, to_member,
                            relationship_type, "None", Cardinality(rows), "True")
    /\ UNCHANGED <<family_members, member_seq, lookups, rendered, sessions>>
    /\ UNCHANGED desktop_vars

\* What the SELECT of delete_relationship fetches.
delete_relationship_fetched(user_id, relationship_id) ==
    LET result == {r \in relationships :
                      r.user_id = user_id /\ r.id = relationship_id} IN
    IF result = {} THEN "None"
    ELSE IF (CHOOSE r \in result : TRUE).is_primary THEN "primary" ELSE "inverse"

\* delete_relationship(user_id, relationship_id), with any id a caller may hold:
\* of a primary row, of an inverse row, of a row that is gone or of another user.
DeleteRelationship(user_id, relationship_id) ==
    /\ relationships' = relationships \ delete_relationship_rows(user_id, relationship_id)
    /\ last' = Call("delete_relationship", user_id, relationship_id, 0, "",
                    delete_relationship_fetched(user_id, relationship_id),
                    Cardinality(delete_relationship_rows(user_id, relationship_id)),
                    "None")
    /\ UNCHANGED <<family_members, member_seq, rel_seq, lookups, rendered, sessions>>
    /\ UNCHANGED desktop_vars

\* Every page action of every logged-in user, one call at a time. The two
\* AUTOINCREMENT sequences are capped; delete_relationship is handed every id
\* issued so far and the next one.
Next ==
    \/ \E u \in Users : AddMember(u) /\ member_seq' <= MaxMemberId
    \/ \E u \in Users, m \in 1..MaxMemberId : DeleteMember(u, m)
    \/ \E u \in Users, f \in 1..MaxMemberId, t \in 1..MaxMemberId,
          ty \in RelationshipTypes, n \in Notes :
          AddRelationship(u, f, t, ty, n) /\ rel_seq' <= MaxRelId
    \/ \E u \in Users, id \in 1..(MaxRelId + 1) :
          id <= rel_seq + 1 /\ DeleteRelationship(u, id)

Spec == Init /\ [][Next]_vars

\* ------------------------------------------------------- a larger family
\* The same calls with room for a third person and with three of the types: one
\* asymmetric, one symmetric that is stored both ways, one stored one way only.
FamilyTypes == {"parent", "spouse", "other"}

NextFamily ==
    \/ \E u \in Users : AddMember(u) /\ member_seq' <= MaxFamilyMemberId
    \/ \E u \in Users, m \in 1..MaxFamilyMemberId : DeleteMember(u, m)
    \/ \E u \in Users, f \in 1..MaxFamilyMemberId, t \in 1..MaxFamilyMemberId,
          ty \in FamilyTypes, n \in Notes :
          AddRelationship(u, f, t, ty, n) /\ rel_seq' <= MaxFamilyRelId
    \/ \E u \in Users, id \in 1..(MaxFamilyRelId + 1) :
          id <= rel_seq + 1 /\ DeleteRelationship(u, id)

SpecFamily == Init /\ [][NextFamily]_vars

\* ------------------------------------------------ the registry on its own
\* One inverse label computed while a page is rendered: the Relationships page
\* and the graph call get_inverse_relationship once per primary row.
InverseLookup(relationship_type) ==
    /\ Len(lookups) < MaxLookups
    /\ lookups' = Append(lookups,
                    [type |-> relationship_type,
                     inverse |-> get_inverse_relationship(relationship_type),
                     back |-> get_inverse_relationship(
                                  get_inverse_relationship(relationship_type))])
    /\ UNCHANGED <<family_members, relationships, member_seq, rel_seq, last, rendered, sessions>>
    /\ UNCHANGED desktop_vars

NextRegistry == \E t \in TypeInputs : InverseLookup(t)

SpecRegistry == Init /\ [][NextRegistry]_vars

\* --------------------------------------------- the Statistics page alone
\* The Statistics page is a function of members_df and relationships_df. It is
\* given every ledger that add_family_member and add_relationship build for
\* one user out of at most MaxGenMemberId members and MaxGenRelationships
\* relationships of these types; the pairs are added in a fixed order.
GenerationTypes == {"parent", "child"}

\* The ledger after one more add_relationship(1, from, to, type), rel_seq
\* included; the ledger itself when the pair does not come after the pairs used
\* before it, or is no pair.
generation_ledger_add(ledger, from_member_id, to_member_id, relationship_type) ==
    LET lo == IF from_member_id < to_member_id THEN from_member_id ELSE to_member_id
        hi == IF from_member_id < to_member_id THEN to_member_id ELSE from_member_id
        primary_id == ledger.rel_seq + 1
        rows == {primary_row(primary_id, 1, from_member_id, to_member_id,
                             relationship_type, "")}
                \cup
                (IF inverse_is_inserted(relationship_type)
                 THEN {inverse_row(primary_id + 1, 1, from_member_id, to_member_id,
                                   relationship_type, "", primary_id)}
                 ELSE {}) IN
    IF /\ from_member_id /= to_member_id
       /\ (ledger.top[1] < lo \/ (ledger.top[1] = lo /\ ledger.top[2] < hi))
    THEN [relationships |-> ledger.relationships \cup rows,
          rel_seq |-> ledger.rel_seq + Cardinality(rows),
          top |-> <<lo, hi>>]
    ELSE ledger

\* The ledgers that at most k calls of add_relationship build for members 1..n.
RECURSIVE generation_ledgers(_, _)
generation_ledgers(n, k) ==
    IF k = 0 THEN {[relationships |-> {}, rel_seq |-> 0, top |-> <<0, 0>>]}
    ELSE LET shorter == generation_ledgers(n, k - 1) IN
         {generation_ledger_add(ledger, f, t, ty) :
             ledger \in shorter, f \in 1..n, t \in 1..n, ty \in GenerationTypes}

InitGeneration ==
    /\ \E n \in 0..MaxGenMemberId :
          /\ family_members = {[id |-> i, user_id |-> 1] : i \in 1..n}
          /\ member_seq = n
          /\ \E ledger \in generation_ledgers(n, MaxGenRelationships) :
                /\ relationships = ledger.relationships
                /\ rel_seq = ledger.rel_seq
    /\ last = Call("none", 0, 0, 0, "", "None", 0, "None")
    /\ lookups = <<>>
    /\ rendered = [page |-> "none"]
    /\ sessions = [s \in Sessions |-> idle_session]
    /\ neo4j = [Person |-> {}, relationships |-> {}, seq |-> 0]
    /\ selected_person_id = None

\* The Statistics page rendered for user_id: the metrics and the Generation
\* Analysis, or the hint to add members when members_df is empty.
Statistics(user_id) ==
    /\ rendered.page = "none"
    /\ rendered' =
          IF member_ids(user_id) = {}
          THEN [page |-> "Statistics", user_id |-> user_id, shown |-> FALSE]
          ELSE [page |-> "Statistics", user_id |-> user_id, shown |-> TRUE,
                total_relationships |-> total_relationships(user_id),
                oldest_generation |-> root_generation(user_id),
                oldest_count |-> Cardinality(root_generation(user_id)),
                next_generation |-> IF root_generation(user_id) /= {}
                                    THEN children_of_root(user_id) ELSE <<>>,
                next_count |-> IF root_generation(user_id) /= {}
                               THEN Len(children_of_root(user_id)) ELSE 0]
    /\ UNCHANGED <<family_members, relationships, member_seq, rel_seq, last, lookups, sessions>>
    /\ UNCHANGED desktop_vars

NextGeneration == \E u \in Users : Statistics(u)

SpecGeneration == InitGeneration /\ [][NextGeneration]_vars

\* ---------------------------------------- the calls statement by statement
\* add_relationship, delete_relationship and delete_family_member taken one
\* statement at a time, each call on its own connection, with pages that read
\* the tables in between and a process that may stop anywhere. A call on the
\* ledger of a user starts when no other session is inside a call on it.
TxnTypes == {"parent", "other"}

\* The sessions are tabs of one account.
TxnUsers == {1}

\* Mutation of autocommit: sqlite3.connect(DB_FILE, isolation_level=None), where
\* every statement is committed as it is executed.
autocommit_isolation_level_none == TRUE

\* sqlite3.connect(DB_FILE) with the default isolation_level: an INSERT or DELETE
\* opens a transaction that lasts until conn.commit().
autocommit == FALSE

\* Another connection is inside a write transaction (SQLite's write lock).
write_locked(s) == \E o \in Sessions \ {s} : sessions[o].txn

\* The relationships table as the connection of session s sees it.
conn_relationships(s) ==
    (relationships \ sessions[s].deleted) \cup sessions[s].inserted

\* cursor.lastrowid of the next INSERT into relationships by session s.
conn_lastrowid(s) == rel_seq + Cardinality(sessions[s].inserted) + 1

\* cursor.execute of one INSERT or DELETE by session s, whose call holds the
\* values of session and then is at pc.
execute(s, session, ins, del, del_members, pc) ==
    /\ ~write_locked(s)
    /\ IF autocommit
       THEN /\ relationships' = (relationships \ del) \cup ins
            /\ rel_seq' = rel_seq + Cardinality(ins)
            /\ family_members' = family_members \ del_members
            /\ sessions' = [sessions EXCEPT ![s] = [session EXCEPT !.pc = pc]]
       ELSE /\ sessions' = [sessions EXCEPT ![s] =
                               [session EXCEPT
                                   !.pc = pc,
                                   !.txn = TRUE,
                                   !.inserted = @ \cup ins,
                                   !.deleted = @ \cup del,
                                   !.deleted_members = @ \cup del_members]]
            /\ UNCHANGED <<family_members, relationships, rel_seq>>
    /\ UNCHANGED <<member_seq, last, lookups, rendered>>
    /\ UNCHANGED desktop_vars

\* conn.commit(), conn.close() and the return of the call to the page.
commit(s, call) ==
    /\ relationships' = (relationships \ sessions[s].deleted) \cup sessions[s].inserted
    /\ rel_seq' = rel_seq + Cardinality(sessions[s].inserted)
    /\ family_members' = family_members \ sessions[s].deleted_members
    /\ sessions' = [sessions EXCEPT ![s] = idle_session]
    /\ last' = call
    /\ UNCHANGED <<member_seq, lookups, rendered>>
    /\ UNCHANGED desktop_vars

\* add_relationship up to its duplicate check: False is returned, or the call
\* goes on to its first INSERT.
add_relationship_select(s, user_id, from_member, to_member, relationship_type, notes) ==
    /\ sessions[s].pc = "idle"
    /\ Cardinality(member_ids(user_id)) >= 2
    /\ from_member \in member_ids(user_id)
    /\ to_member \in to_member_options(user_id, from_member)
    /\ IF existing_between(user_id, from_member, to_member) /= {}
       THEN /\ last' = Call("add_relationship", user_id, from_member, to_member,
                            relationship_type, "row", 0, "False")
            /\ UNCHANGED sessions
       ELSE /\ sessions' = [sessions EXCEPT ![s] =
                  [idle_session EXCEPT
                      !.pc = "add_relationship_insert_primary",
                      !.user_id = user_id, !.a = from_member, !.b = to_member,
                      !.relationship_type = relationship_type, !.notes = notes]]
            /\ UNCHANGED last
    /\ UNCHANGED <<family_members, relationships, member_seq, rel_seq, lookups, rendered>>
    /\ UNCHANGED desktop_vars

\* The INSERT of the primary row, and the test whether an inverse row follows.
add_relationship_insert_primary(s) ==
    /\ sessions[s].pc = "add_relationship_insert_primary"
    /\ execute(s, sessions[s],
               {primary_row(conn_lastrowid(s), sessions[s].user_id, sessions[s].a,
                            sessions[s].b, sessions[s].relationship_type,
                            sessions[s].notes)},
               {}, {},
               IF inverse_is_inserted(sessions[s].relationship_type)
               THEN "add_relationship_insert_inverse"
               ELSE "add_relationship_commit")

\* The INSERT of the inverse row, linked to primary_id = cursor.lastrowid.
add_relationship_insert_inverse(s) ==
    /\ sessions[s].pc = "add_relationship_insert_inverse"
    /\ execute(s, sessions[s],
               {inverse_row(conn_lastrowid(s), sessions[s].user_id, sessions[s].a,
                            sessions[s].b, sessions[s].relationship_type,
                            sessions[s].notes, conn_lastrowid(s) - 1)},
               {}, {}, "add_relationship_commit")

add_relationship_commit(s) ==
    /\ sessions[s].pc = "add_relationship_commit"
    /\ commit(s, Call("add_relationship", sessions[s].user_id, sessions[s].a,
                      sessions[s].b, sessions[s].relationship_type, "None",
                      IF inverse_is_inserted(sessions[s].relationship_type)
                      THEN 2 ELSE 1,
                      "True"))

\* delete_relationship up to cursor.fetchone().
delete_relationship_select(s, user_id, relationship_id) ==
    /\ sessions[s].pc = "idle"
    /\ LET result == {r \in relationships :
                         r.user_id = user_id /\ r.id = relationship_id} IN
       sessions' = [sessions EXCEPT ![s] =
          [idle_session EXCEPT
              !.pc = IF result = {} THEN "delete_relationship_commit"
                     ELSE "delete_relationship_delete",
              !.user_id = user_id, !.a = relationship_id,
              !.fetched = delete_relationship_fetched(user_id, relationship_id),
              !.linked_id = IF result = {} THEN NULL
                            ELSE (CHOOSE r \in result : TRUE).linked_relationship_id]]
    /\ UNCHANGED <<family_members, relationships, member_seq, rel_seq, last, lookups,
                   rendered>>
    /\ UNCHANGED desktop_vars

\* The DELETE of delete_relationship: by id and link for a primary row, by id
\* and the fetched linked_id for an inverse row.
delete_relationship_delete(s) ==
    /\ sessions[s].pc = "delete_relationship_delete"
    /\ execute(s, sessions[s], {},
               {r \in conn_relationships(s) :
                   /\ r.user_id = sessions[s].user_id
                   /\ IF sessions[s].fetched = "primary"
                      THEN (r.id = sessions[s].a
                            \/ r.linked_relationship_id = sessions[s].a)
                      ELSE (r.id = sessions[s].a \/ r.id = sessions[s].linked_id)},
               {}, "delete_relationship_commit")

delete_relationship_commit(s) ==
    /\ sessions[s].pc = "delete_relationship_commit"
    /\ commit(s, Call("delete_relationship", sessions[s].user_id, sessions[s].a, 0, "",
                      sessions[s].fetched, Cardinality(sessions[s].deleted), "None"))

\* delete_family_member up to its first DELETE, the one of the relationships.
delete_family_member_delete_relationships(s, user_id, member_id) ==
    /\ sessions[s].pc = "idle"
    /\ member_id \in member_ids(user_id)
    /\ execute(s, [idle_session EXCEPT !.user_id = user_id, !.a = member_id], {},
               delete_family_member_rows(user_id, member_id),
               {}, "delete_family_member_delete_member")

\* The second DELETE of delete_family_member, the one of the member.
delete_family_member_delete_member(s) ==
    /\ sessions[s].pc = "delete_family_member_delete_member"
    /\ execute(s, sessions[s], {}, {},
               {m \in family_members :
                   m.user_id = sessions[s].user_id /\ m.id = sessions[s].a},
               "delete_family_member_commit")

delete_family_member_commit(s) ==
    /\ sessions[s].pc = "delete_family_member_commit"
    /\ commit(s, Call("delete_family_member", sessions[s].user_id, sessions[s].a, 0, "",
                      "None", Cardinality(sessions[s].deleted), "None"))

\* A page of user_id is rendered while the sessions are where they are: it
\* loads relationships_df through a connection of its own.
Reader(user_id) ==
    /\ rendered' = [page |-> "Relationships", user_id |-> user_id,
                    relationships_df |-> get_user_relationships(user_id),
                    during |-> {sessions[s].pc : s \in Sessions} \ {"idle"}]
    /\ UNCHANGED <<family_members, relationships, member_seq, rel_seq, last, lookups,
                   sessions>>
    /\ UNCHANGED desktop_vars

\* The process stops while some session is inside a call and is started again:
\* what was not committed is rolled back when the database is opened next.
Crash ==
    /\ \E s \in Sessions : sessions[s].pc /= "idle"
    /\ sessions' = [s \in Sessions |-> idle_session]
    /\ last' = Call("crash", 0, 0, 0, "",
                    IF \E s \in Sessions : sessions[s].txn
                    THEN sessions[CHOOSE s \in Sessions : sessions[s].txn].pc
                    ELSE "None",
                    0, "None")
    /\ UNCHANGED <<family_members, relationships, member_seq, rel_seq, lookups, rendered>>
    /\ UNCHANGED desktop_vars

\* No other session is inside a call on the ledger of user_id.
scope_quiet(s, user_id) ==
    \A o \in Sessions \ {s} : sessions[o].pc = "idle" \/ sessions[o].user_id /= user_id

NextTxn ==
    \/ \E u \in TxnUsers :
          /\ \A s \in Sessions : ~sessions[s].txn
          /\ AddMember(u) /\ member_seq' <= MaxTxnMemberId
    \/ \E s \in Sessions, u \in TxnUsers, f \in 1..MaxTxnMemberId, t \in 1..MaxTxnMemberId,
          ty \in TxnTypes, n \in Notes :
          /\ scope_quiet(s, u)
          /\ rel_seq + 2 <= MaxTxnRelId
          /\ add_relationship_select(s, u, f, t, ty, n)
    \/ \E s \in Sessions : add_relationship_insert_primary(s)
    \/ \E s \in Sessions : add_relationship_insert_inverse(s)
    \/ \E s \in Sessions : add_relationship_commit(s)
    \/ \E s \in Sessions, u \in TxnUsers, id \in 1..(MaxTxnRelId + 1) :
          /\ scope_quiet(s, u)
          /\ id <= rel_seq + 1
          /\ delete_relationship_select(s, u, id)
    \/ \E s \in Sessions : delete_relationship_delete(s)
    \/ \E s \in Sessions : delete_relationship_commit(s)
    \/ \E s \in Sessions, u \in TxnUsers, m \in 1..MaxTxnMemberId :
          /\ scope_quiet(s, u)
          /\ delete_family_member_delete_relationships(s, u, m)
    \/ \E s \in Sessions : delete_family_member_delete_member(s)
    \/ \E s \in Sessions : delete_family_member_commit(s)
    \/ \E u \in TxnUsers : Reader(u)
    \/ Crash

SpecTxn == Init /\ [][NextTxn]_vars

\* ------------------------------------------------------- two accounts
\* The same calls on the ledgers of two accounts that each have registered two
\* members, with two of the types and with notes that can be told apart.
ScopeTypes == {"parent", "other"}

ScopeNotes == {"", "adopted"}

InitScopes ==
    /\ family_members = {[id |-> 1, user_id |-> 1], [id |-> 2, user_id |-> 1],
                         [id |-> 3, user_id |-> 2], [id |-> 4, user_id |-> 2]}
    /\ relationships = {}
    /\ member_seq = 4
    /\ rel_seq = 0
    /\ last = Call("none", 0, 0, 0, "", "None", 0, "None")
    /\ lookups = <<>>
    /\ rendered = [page |-> "none"]
    /\ sessions = [s \in Sessions |-> idle_session]
    /\ neo4j = [Person |-> {}, relationships |-> {}, seq |-> 0]
    /\ selected_person_id = None

NextScopes ==
    \/ \E u \in Users, m \in 1..member_seq : DeleteMember(u, m)
    \/ \E u \in Users, f \in 1..member_seq, t \in 1..member_seq,
          ty \in ScopeTypes, n \in ScopeNotes :
          AddRelationship(u, f, t, ty, n) /\ rel_seq' <= MaxScopeRelId
    \/ \E u \in Users, id \in 1..(MaxScopeRelId + 1) :
          id <= rel_seq + 1 /\ DeleteRelationship(u, id)

SpecScopes == InitScopes /\ [][NextScopes]_vars

\* ------------------------------------------------------ export and import
\* One row of relationships_df as json.dumps(..., default=str) writes it: the
\* BOOLEAN column is_primary holds SQLite's 1 and 0, and the NULL of
\* linked_relationship_id comes out of pandas as NaN.
relationship_record(r) ==
    [id |-> r.id, user_id |-> r.user_id,
     from_member_id |-> r.from_member_id, to_member_id |-> r.to_member_id,
     relationship_type |-> r.relationship_type, notes |-> r.notes,
     is_primary |-> IF r.is_primary THEN 1 ELSE 0,
     linked_relationship_id |-> IF r.linked_relationship_id = NULL THEN "NaN"
                                ELSE ToString(r.linked_relationship_id)]

\* export_data without its export_date.
export_data(user_id) ==
    [family_members |-> {m \in family_members : m.user_id = user_id},
     relationships |-> {relationship_record(r) : r \in get_user_relationships(user_id)}]

\* "Export Family Data" in the sidebar: the JSON offered for download, or the
\* warning that there is nothing to export.
Export(user_id) ==
    /\ rendered' =
          IF member_ids(user_id) /= {} \/ get_user_relationships(user_id) /= {}
          THEN [page |-> "Export", user_id |-> user_id, download |-> TRUE,
                json |-> export_data(user_id)]
          ELSE [page |-> "Export", user_id |-> user_id, download |-> FALSE,
                json |-> export_data(user_id)]
    /\ UNCHANGED <<family_members, relationships, member_seq, rel_seq, last, lookups,
                   sessions>>
    /\ UNCHANGED desktop_vars

\* What "Import Data" writes: nothing, the button only shows st.sidebar.info.
import_rows(user_id, import_data) ==
    [family_members |-> {}, relationships |-> {}]

\* "Import Data" in the sidebar of user_id with a downloaded export uploaded:
\* json.load, the check for 'family_members', and the button.
Import(user_id) ==
    /\ rendered.page = "Export"
    /\ rendered.download
    /\ family_members' =
          family_members \cup import_rows(user_id, rendered.json).family_members
    /\ relationships' =
          relationships \cup import_rows(user_id, rendered.json).relationships
    /\ rendered' = [page |-> "Import", user_id |-> user_id,
                    import_data |-> rendered.json,
                    empty_before |-> (member_ids(user_id) = {}
                                      /\ get_user_relationships(user_id) = {}),
                    info |-> "Import functionality would be implemented here"]
    /\ UNCHANGED <<member_seq, rel_seq, last, lookups, sessions>>
    /\ UNCHANGED desktop_vars

NextExport ==
    \/ \E u \in Users : AddMember(u) /\ member_seq' <= MaxExportMemberId
    \/ \E u \in Users, f \in 1..MaxExportMemberId, t \in 1..MaxExportMemberId,
          ty \in ScopeTypes, n \in Notes :
          AddRelationship(u, f, t, ty, n) /\ rel_seq' <= MaxExportRelId
    \/ \E u \in Users : Export(u)
    \/ \E u \in Users : Import(u)

SpecExport == Init /\ [][NextExport]_vars

\* ------------------------------------------- the order of relationships_df
\* The result sets ORDER BY r.created_at can deliver for these rows: every
\* arrangement in which created_at never decreases. SQL leaves the order of rows
\* with equal created_at to the engine.
RECURSIVE order_by_created_at(_)
order_by_created_at(rows) ==
    IF rows = {} THEN {<<>>}
    ELSE UNION {{<<r>> \o rest : rest \in order_by_created_at(rows \ {r})} :
                  r \in {x \in rows : \A o \in rows : x.created_at <= o.created_at}}

\* The values CURRENT_TIMESTAMP, which counts whole seconds, can have given to
\* the column created_at of rows 1..n: later rows are not stamped earlier.
created_at_defaults(n) ==
    {stamp \in [1..n -> 0..MaxClock] :
        \A i \in 1..n : \A j \in 1..n : i < j => stamp[i] <= stamp[j]}

\* The tables of one user after at most MaxOrderRelationships calls of
\* add_relationship among at most MaxOrderMemberId members, created_at included.
InitOrder ==
    /\ \E n \in 0..MaxOrderMemberId :
          /\ family_members = {[id |-> i, user_id |-> 1] : i \in 1..n}
          /\ member_seq = n
          /\ \E ledger \in generation_ledgers(n, MaxOrderRelationships) :
                /\ rel_seq = ledger.rel_seq
                /\ \E stamp \in created_at_defaults(ledger.rel_seq) :
                      relationships =
                         {r @@ [created_at |-> stamp[r.id]] : r \in ledger.relationships}
    /\ last = Call("none", 0, 0, 0, "", "None", 0, "None")
    /\ lookups = <<>>
    /\ rendered = [page |-> "none"]
    /\ sessions = [s \in Sessions |-> idle_session]
    /\ neo4j = [Person |-> {}, relationships |-> {}, seq |-> 0]
    /\ selected_person_id = None

\* The Relationships page of user_id: relationships_df as the query delivers it
\* and the expanders under "Existing Relationships", one per primary row.
ExistingRelationships(user_id) ==
    /\ rendered.page = "none"
    /\ \E relationships_df \in order_by_created_at(get_user_relationships(user_id)) :
          rendered' = [page |-> "Existing Relationships", user_id |-> user_id,
                       primary_relationships |->
                          SelectSeq(relationships_df, LAMBDA r : r.is_primary)]
    /\ UNCHANGED <<family_members, relationships, member_seq, rel_seq, last, lookups,
                   sessions>>
    /\ UNCHANGED desktop_vars

NextOrder == \E u \in Users : ExistingRelationships(u)

SpecOrder == InitOrder /\ [][NextOrder]_vars

\* ------------------------------------------------- vocabulary of the claims
\* The edges of scope u that connect the persons A and B, in either direction.
EdgesOfPair(u, A, B) ==
    {r \in relationships :
        r.user_id = u /\ {r.from_member_id, r.to_member_id} = {A, B}}

PrimaryEdges(S) == {r \in S : r.is_primary}
DerivedEdges(S) == {r \in S : ~r.is_primary}

\* The inverse table of the specification (section 8), 'other' outside the closed set.
ReferenceInverse(t) ==
    CASE t = "parent" -> "child"
      [] t = "child" -> "parent"
      [] t = "grandparent" -> "grandchild"
      [] t = "grandchild" -> "grandparent"
      [] t = "aunt-uncle" -> "niece-nephew"
      [] t = "niece-nephew" -> "aunt-uncle"
      [] t \in {"in-law", "spouse", "sibling", "cousin", "other"} -> t
      [] OTHER -> "other"

\* isMaterializedBothWays of the specification (section 4.1).
IsMaterializedBothWays(t) ==
    t /= ReferenceInverse(t) \/ t \in {"spouse", "sibling", "cousin"}

AddSucceeded == last.op = "add_relationship" /\ last.ret = "True"
AddRejected == last.op = "add_relationship" /\ last.ret = "False"

\* ------------------------------------------------------------------ claims
\* C1 (invariant I1): in every reachable state, for every scope and every two
\* persons A and B, at most one primary edge and at most one derived edge connect
\* A and B, counting both directions.
C1_AtMostOnePairPerPersons ==
    \A u \in Users : \A A \in 1..member_seq, B \in 1..member_seq :
        /\ Cardinality(PrimaryEdges(EdgesOfPair(u, A, B))) <= 1
        /\ Cardinality(DerivedEdges(EdgesOfPair(u, A, B))) <= 1

\* C1 witness: a second add between two persons that already hold a full pair has
\* been turned away, and the pair is still the only one.
C1_Witness ==
    /\ AddRejected
    /\ Cardinality(PrimaryEdges(EdgesOfPair(last.user_id, last.a, last.b))) = 1
    /\ Cardinality(DerivedEdges(EdgesOfPair(last.user_id, last.a, last.b))) = 1

\* C2: a call add_relationship(u, from, to, type) made while any edge of scope u
\* connects from and to, in either direction and of any type, returns False
\* (DuplicateRelationship), whatever the type asked for, and stores nothing.
C2_DuplicateRejected ==
    [][(last'.op = "add_relationship"
        /\ EdgesOfPair(last'.user_id, last'.a, last'.b) /= {})
       => (last'.ret = "False" /\ relationships' = relationships)]_vars

\* C2 witness: parent(A,B) is stored and child(B,A) has just been rejected.
C2_Witness ==
    /\ AddRejected
    /\ last.relationship_type = "child"
    /\ \E r \in relationships :
          /\ r.is_primary /\ r.relationship_type = "parent"
          /\ r.user_id = last.user_id
          /\ r.from_member_id = last.b /\ r.to_member_id = last.a

\* C3 (pair atomicity): right after a successful add_relationship(A, B, type) of a
\* type that is materialized both ways, scope u holds exactly one primary edge
\* A -> B, of that type, and exactly one derived edge B -> A, of the inverse
\* type, whose linked_relationship_id is the id of that primary edge.
C3_PairAtomicity ==
    (AddSucceeded /\ IsMaterializedBothWays(last.relationship_type)) =>
        LET pair == EdgesOfPair(last.user_id, last.a, last.b) IN
        /\ Cardinality(PrimaryEdges(pair)) = 1
        /\ Cardinality(DerivedEdges(pair)) = 1
        /\ \A p \in PrimaryEdges(pair) : \A d \in DerivedEdges(pair) :
              /\ p.from_member_id = last.a /\ p.to_member_id = last.b
              /\ p.relationship_type = last.relationship_type
              /\ d.from_member_id = last.b /\ d.to_member_id = last.a
              /\ d.relationship_type = ReferenceInverse(last.relationship_type)
              /\ d.linked_relationship_id = p.id
              /\ d.id /= p.id

\* C3 witness: a grandparent relationship has just been added and both rows exist.
C3_Witness ==
    /\ AddSucceeded
    /\ last.relationship_type = "grandparent"
    /\ Cardinality(EdgesOfPair(last.user_id, last.a, last.b)) = 2

\* C4 (invariant I2): right after a successful add_relationship the pair has a
\* derived edge if and only if the type differs from its inverse or is one of
\* spouse, sibling, cousin; for 'other' and 'in-law' the primary edge is alone.
C4_MaterializationPolicy ==
    AddSucceeded =>
        LET pair == EdgesOfPair(last.user_id, last.a, last.b) IN
        /\ Cardinality(PrimaryEdges(pair)) = 1
        /\ (DerivedEdges(pair) /= {}) <=>
              (\/ last.relationship_type /= ReferenceInverse(last.relationship_type)
               \/ last.relationship_type \in {"spouse", "sibling", "cousin"})
        /\ last.relationship_type \in {"other", "in-law"} => pair = PrimaryEdges(pair)

\* C4 witness: an 'in-law' relationship has just been added and only one row exists.
C4_Witness ==
    /\ AddSucceeded
    /\ last.relationship_type = "in-law"
    /\ Cardinality(EdgesOfPair(last.user_id, last.a, last.b)) = 1

C6_NoOrphans ==
    /\ \A d \in DerivedEdges(relationships) :
          \E p \in PrimaryEdges(relationships) :
              p.id = d.linked_relationship_id /\ p.user_id = d.user_id
    /\ \A p \in PrimaryEdges(relationships) :
          /\ p.linked_relationship_id = NULL
          /\ IsMaterializedBothWays(p.relationship_type) =>
                Cardinality({d \in DerivedEdges(relationships) :
                                d.linked_relationship_id = p.id}) = 1

\* C6 witness: a pair has just been deleted through the id of its primary edge,
\* and its derived edge went with it.
C6_Witness ==
    /\ last.op = "delete_relationship"
    /\ last.fetched = "primary"
    /\ last.rowcount = 2
    /\ ~\E d \in relationships : d.linked_relationship_id = last.a

\* C7 (cascade on person delete): deleting person P leaves no edge with P as an
\* endpoint, leaves no derived edge whose primary had P as an endpoint, keeps
\* every edge whose endpoints both differ from P, and adds none.
C7_CascadeOnPersonDelete ==
    [][last'.op = "delete_family_member" =>
        LET P == last'.a IN
        /\ \A r \in relationships' : r.from_member_id /= P /\ r.to_member_id /= P
        /\ \A d \in DerivedEdges(relationships') : \A p \in relationships :
              p.id = d.linked_relationship_id =>
                  (p.from_member_id /= P /\ p.to_member_id /= P)
        /\ \A r \in relationships :
              (r.from_member_id /= P /\ r.to_member_id /= P) => r \in relationships'
        /\ relationships' \subseteq relationships]_vars

\* C7 witness: a person with a relationship has just been deleted, the deletion
\* removed the rows of that relationship, and a relationship between two other
\* persons of the same scope is still stored.
C7_Witness ==
    /\ last.op = "delete_family_member"
    /\ last.rowcount >= 1
    /\ \E r \in relationships :
          /\ r.user_id = last.user_id
          /\ r.from_member_id /= last.a /\ r.to_member_id /= last.a

\* C8: delete_relationship(u, id) called with an id that no edge of scope u has
\* (never created, already deleted, or of another scope) reports NotFound to its
\* caller and leaves the ledger unchanged.
C8_NotFoundReported ==
    [][(last'.op = "delete_relationship"
        /\ ~\E r \in relationships : r.user_id = last'.user_id /\ r.id = last'.a)
       => (last'.ret = "NotFound" /\ relationships' = relationships)]_vars

\* C9: no edge from a person to the same person is stored in any reachable state.
C9_NoSelfRelationship ==
    \A r \in relationships : r.from_member_id /= r.to_member_id

\* C9 witness: a relationship has just been stored through the form, whose second
\* selectbox did not offer the first person.
C9_Witness ==
    /\ AddSucceeded
    /\ last.a \in member_ids(last.user_id)
    /\ last.a \notin to_member_options(last.user_id, last.a)
    /\ last.b \in to_member_options(last.user_id, last.a)
    /\ EdgesOfPair(last.user_id, last.a, last.b) /= {}

\* C10: get_inverse_relationship equals the reference table on the closed set,
\* returns 'other' for every input outside it, and on the closed set applying it
\* twice gives the type back.
C10_InverseTable ==
    \A i \in 1..Len(lookups) :
        /\ lookups[i].inverse = ReferenceInverse(lookups[i].type)
        /\ lookups[i].type \notin RelationshipTypes => lookups[i].inverse = "other"
        /\ lookups[i].type \in RelationshipTypes => lookups[i].back = lookups[i].type

\* C10 witness: 'aunt-uncle' and a string outside the closed set have been looked up.
C10_Witness ==
    /\ \E i \in 1..Len(lookups) :
          /\ lookups[i].type = "aunt-uncle"
          /\ lookups[i].inverse = "niece-nephew"
          /\ lookups[i].back = "aunt-uncle"
    /\ \E i \in 1..Len(lookups) :
          lookups[i].type \notin RelationshipTypes /\ lookups[i].inverse = "other"

\* The unordered pairs of persons of scope u that some edge connects.
RelatedPairs(u) ==
    {{r.from_member_id, r.to_member_id} : r \in {x \in relationships : x.user_id = u}}

\* C11 (no double counting): in every reachable state the primary list of a scope
\* holds no derived edge, and the edges of the graph, the entries of the
\* relationship list and the 'Total Relationships' figure each number exactly the
\* unordered pairs of persons of the scope that have a relationship.
C11_NoDoubleCounting ==
    \A u \in Users :
        /\ \A r \in primary_relationships(u) : r.is_primary
        /\ Cardinality(primary_relationships(u)) = Cardinality(RelatedPairs(u))
        /\ total_relationships(u) = Cardinality(RelatedPairs(u))
        /\ IF create_family_tree_graph(u).fig
           THEN /\ create_family_tree_graph(u).edges = RelatedPairs(u)
                /\ Cardinality(create_family_tree_graph(u).edges)
                      = Cardinality(RelatedPairs(u))
           ELSE RelatedPairs(u) = {}

\* C11 witness: a scope stores two rows for one relationship and every view
\* shows one entry.
C11_Witness ==
    \E u \in Users :
        /\ Cardinality(get_user_relationships(u)) = 2
        /\ Cardinality(RelatedPairs(u)) = 1
        /\ total_relationships(u) = 1
        /\ Cardinality(primary_relationships(u)) = 1
        /\ Cardinality(create_family_tree_graph(u).edges) = 1

\* The Statistics page has been rendered with its generation analysis.
GenerationShown == rendered.page = "Statistics" /\ rendered.shown

\* The ledger of the scenario: persons 1..4 (A, B, C, D) of user 1 with
\* parent(A -> B), parent(A -> C) and parent(C -> D).
GenerationScenario ==
    /\ member_ids(1) = {1, 2, 3, 4}
    /\ {<<r.from_member_id, r.to_member_id>> :
           r \in {x \in PrimaryEdges(relationships) : x.relationship_type = "parent"}}
          = {<<1, 2>>, <<1, 3>>, <<3, 4>>}
    /\ \A r \in PrimaryEdges(relationships) : r.relationship_type = "parent"

\* C12 (generation inference, root tier): the oldest generation the Statistics
\* page shows is the set of persons of the scope minus the to-ends of the primary
\* edges of type 'parent' of the scope; in the scenario it is {A}.
C12_RootGeneration ==
    GenerationShown =>
        /\ rendered.oldest_generation =
              member_ids(rendered.user_id) \
                 {r.to_member_id :
                     r \in {x \in PrimaryEdges(relationships) :
                               /\ x.user_id = rendered.user_id
                               /\ x.relationship_type = "parent"}}
        /\ rendered.oldest_count = Cardinality(rendered.oldest_generation)
        /\ (GenerationScenario /\ rendered.user_id = 1) =>
              rendered.oldest_generation = {1}

\* C12 witness: the page has been rendered on the scenario and shows {A}.
C12_Witness ==
    /\ GenerationShown
    /\ GenerationScenario
    /\ rendered.user_id = 1
    /\ rendered.oldest_generation = {1}

\* The elements of a sequence.
Range(seq) == {seq[i] : i \in 1..Len(seq)}

\* C13 (generation inference, next tier): the next generation the Statistics page
\* shows is the set of to-ends of the primary 'parent' edges whose from-end is in
\* the oldest generation, each such person listed once even with several parents
\* in the oldest generation, and the size shown is the number of distinct such
\* persons; in the scenario D, whose only parent is not in the oldest generation,
\* is in neither tier.
C13_NextGeneration ==
    GenerationShown =>
        LET u == rendered.user_id
            expected == {r.to_member_id :
                            r \in {x \in PrimaryEdges(relationships) :
                                      /\ x.user_id = u
                                      /\ x.relationship_type = "parent"
                                      /\ x.from_member_id \in rendered.oldest_generation}} IN
        /\ Range(rendered.next_generation) = expected
        /\ Len(rendered.next_generation) = Cardinality(expected)
        /\ rendered.next_count = Cardinality(expected)
        /\ (GenerationScenario /\ u = 1) =>
              (4 \notin rendered.oldest_generation
               /\ 4 \notin Range(rendered.next_generation))

\* I1 on a set of edges: at most one primary and one derived edge per scope and
\* unordered pair of persons.
I1(S) ==
    \A x \in S : \A y \in S :
        (/\ x.user_id = y.user_id
         /\ {x.from_member_id, x.to_member_id} = {y.from_member_id, y.to_member_id}
         /\ x.is_primary = y.is_primary) => x = y

\* I2 on a set of edges: a primary edge has a derived edge linked to it exactly
\* when its type is materialized both ways, and that edge is its mirror image.
I2(S) ==
    \A p \in PrimaryEdges(S) :
        LET linked == {d \in DerivedEdges(S) : d.linked_relationship_id = p.id} IN
        /\ (linked /= {}) <=> IsMaterializedBothWays(p.relationship_type)
        /\ \A d \in linked :
              /\ d.user_id = p.user_id
              /\ d.from_member_id = p.to_member_id /\ d.to_member_id = p.from_member_id
              /\ d.relationship_type = ReferenceInverse(p.relationship_type)

\* I3 on a set of edges: every derived edge is linked to a primary edge of the set.
I3(S) ==
    \A d \in DerivedEdges(S) :
        \E p \in PrimaryEdges(S) : p.id = d.linked_relationship_id /\ p.user_id = d.user_id

\* C14 (atomic visibility): what a page loads while add_relationship,
\* delete_relationship or delete_family_member is under way in another session
\* holds no half-written pair, neither a primary edge of a type materialized both
\* ways without its derived edge nor a derived edge without its primary; and
\* while a call is under way the tables a reader sees hold none of the rows it
\* has inserted and all of the rows it has deleted, which is the ledger as it was
\* before the call.
C14_AtomicVisibility ==
    /\ rendered.page = "Relationships" =>
          (I2(rendered.relationships_df) /\ I3(rendered.relationships_df))
    /\ \A s \in Sessions :
          /\ sessions[s].inserted \cap relationships = {}
          /\ sessions[s].deleted \subseteq relationships
          /\ sessions[s].deleted_members \subseteq family_members

\* C14 witness: a page was loaded after the primary row of a 'parent'
\* relationship had been inserted and before its inverse row was, and showed
\* neither.
C14_Witness ==
    /\ rendered.page = "Relationships"
    /\ "add_relationship_insert_inverse" \in rendered.during
    /\ rendered.relationships_df = {}
    /\ \E s \in Sessions :
          /\ sessions[s].pc = "add_relationship_commit"
          /\ Cardinality(sessions[s].inserted) = 2

\* C15 (crash atomicity): at whatever statement of add_relationship or
\* delete_relationship the process stops, the committed tables, which are what a
\* restart finds, hold both edges of every pair or neither, and I1, I2 and I3
\* hold of them.
C15_CrashAtomicity ==
    I1(relationships) /\ I2(relationships) /\ I3(relationships)

\* C15 witness: the process stopped after the primary insert of a 'parent'
\* relationship and before the inverse insert, and the restarted ledger holds
\* neither row.
C15_Witness ==
    /\ last.op = "crash"
    /\ last.fetched = "add_relationship_insert_inverse"
    /\ relationships = {}
    /\ Cardinality(member_ids(1)) = 2

\* C16 (rejected add): an add_relationship that is turned away as a duplicate
\* leaves both tables and the id sequence as they were: no edge is inserted,
\* none is modified or removed, and the edges between the two persons keep their
\* type, direction and notes.
C16_RejectedAddLeavesLedger ==
    [][(last'.op = "add_relationship" /\ last'.ret = "False") =>
          /\ relationships' = relationships
          /\ rel_seq' = rel_seq
          /\ family_members' = family_members
          /\ {r \in relationships' :
                 /\ r.user_id = last'.user_id
                 /\ {r.from_member_id, r.to_member_id} = {last'.a, last'.b}}
                = EdgesOfPair(last'.user_id, last'.a, last'.b)
          /\ EdgesOfPair(last'.user_id, last'.a, last'.b) /= {}]_vars

\* C16 witness: a relationship stored as parent(B -> A) with the notes 'adopted'
\* is still stored so after an add of 'other' from A to B has been turned away.
C16_Witness ==
    /\ AddRejected
    /\ last.relationship_type = "other"
    /\ \E r \in relationships :
          /\ r.is_primary
          /\ r.user_id = last.user_id
          /\ r.from_member_id = last.b /\ r.to_member_id = last.a
          /\ r.relationship_type = "parent"
          /\ r.notes = "adopted"

\* C17 (scope isolation): add_relationship, delete_relationship and
\* delete_family_member called for user U leave every edge and every person of
\* every other user as they were; delete_relationship(U, id) with an id that
\* only an edge of another user has deletes nothing; and add_relationship is
\* turned away only over edges of U itself.
C17_ScopeIsolation ==
    [][last'.op \in {"add_relationship", "delete_relationship", "delete_family_member"} =>
          LET U == last'.user_id IN
          /\ {r \in relationships' : r.user_id /= U}
                = {r \in relationships : r.user_id /= U}
          /\ {m \in family_members' : m.user_id /= U}
                = {m \in family_members : m.user_id /= U}
          /\ (/\ last'.op = "delete_relationship"
              /\ ~\E r \in relationships : r.user_id = U /\ r.id = last'.a)
                => relationships' = relationships
          /\ (/\ last'.op = "add_relationship"
              /\ EdgesOfPair(U, last'.a, last'.b) = {})
                => last'.ret = "True"]_vars

\* C17 witness: delete_relationship has been called for one user with the id of
\* an edge of the other user, and that edge is still stored.
C17_Witness ==
    /\ last.op = "delete_relationship"
    /\ last.rowcount = 0
    /\ \E r \in relationships : r.id = last.a /\ r.user_id /= last.user_id
    /\ \E r \in relationships : r.user_id = last.user_id

\* C18 (export/import round trip): after the export of one scope has been
\* imported into a scope that was empty, that scope holds as many persons as
\* the record, and for every edge of the record an edge of the same type, role
\* and direction between the corresponding persons with the same pair linkage,
\* so that I1, I2 and I3 hold of the imported ledger.
C18_ExportImportRoundTrip ==
    (rendered.page = "Import" /\ rendered.empty_before) =>
        LET u == rendered.user_id
            record == rendered.import_data
            imported == {r \in relationships : r.user_id = u} IN
        /\ Cardinality(member_ids(u)) = Cardinality(record.family_members)
        /\ Cardinality(imported) = Cardinality(record.relationships)
        /\ {<<r.relationship_type, r.is_primary, r.linked_relationship_id = NULL>> :
               r \in imported}
              = {<<r.relationship_type, r.is_primary = 1, r.linked_relationship_id = "NaN">> :
                    r \in record.relationships}
        /\ I1(imported) /\ I2(imported) /\ I3(imported)

\* C19 (creation order): the primary edges are listed in the order in which
\* they were created, the edge of the earlier add_relationship (the smaller
\* AUTOINCREMENT id) first, also when both were created in the same second.
C19_CreationOrder ==
    rendered.page = "Existing Relationships" =>
        \A i \in 1..Len(rendered.primary_relationships) :
            \A j \in 1..Len(rendered.primary_relationships) :
                i < j => rendered.primary_relationships[i].id
                            < rendered.primary_relationships[j].id

C21_AddReturnsPrimaryId ==
    AddSucceeded =>
        \E p \in PrimaryEdges(EdgesOfPair(last.user_id, last.a, last.b)) :
            /\ last.ret = ToString(p.id)
            /\ delete_relationship_rows(last.user_id, p.id)
                  = EdgesOfPair(last.user_id, last.a, last.b)

\* C22 (pair shape): in every reachable state every derived edge d is linked to
\* a primary edge p with d.from = p.to, d.to = p.from and d.type the inverse of
\* p.type; hence the inverse label the Relationships page computes from p alone
\* is the type stored on the derived edge of p, when p has one.
C22_PairShape ==
    /\ \A d \in DerivedEdges(relationships) :
          \E p \in PrimaryEdges(relationships) :
              /\ p.id = d.linked_relationship_id
              /\ d.from_member_id = p.to_member_id
              /\ d.to_member_id = p.from_member_id
              /\ d.relationship_type = ReferenceInverse(p.relationship_type)
    /\ \A p \in PrimaryEdges(relationships) :
          \A d \in DerivedEdges(relationships) :
              d.linked_relationship_id = p.id =>
                  get_inverse_relationship(p.relationship_type) = d.relationship_type

\* C22 witness: an 'aunt-uncle' edge is stored with its derived 'niece-nephew'
\* edge in the opposite direction.
C22_Witness ==
    \E p \in PrimaryEdges(relationships) : \E d \in DerivedEdges(relationships) :
        /\ d.linked_relationship_id = p.id
        /\ p.relationship_type = "aunt-uncle"
        /\ d.relationship_type = "niece-nephew"
        /\ d.from_member_id = p.to_member_id

\* C23 (referential integrity): in every committed state both ends of every
\* stored edge are persons that exist in the scope of the edge; the deletion of
\* a person and of the edges at that person are committed together, so that the
\* tables a page is loaded from never lack the person while an edge remains.
C23_ReferentialIntegrity ==
    \A r \in relationships :
        /\ r.from_member_id \in member_ids(r.user_id)
        /\ r.to_member_id \in member_ids(r.user_id)

\* C23 witness: a person with a relationship has been deleted and the deletion
\* committed; the page loaded after both DELETE statements and before the
\* commit still showed the edges, and now neither the person nor an edge is left.
C23_Witness ==
    /\ last.op = "delete_family_member"
    /\ last.rowcount = 2
    /\ last.a \notin member_ids(last.user_id)
    /\ relationships = {}
    /\ rendered.page = "Relationships"
    /\ rendered.during = {"delete_family_member_commit"}
    /\ Cardinality(rendered.relationships_df) = 2

\* ------------------------------------------ desktop front-end (genealog.py)
\* Persons the database is allowed to hold, relationships it is allowed to have
\* created.
MaxPersons == 3
MaxDesktopRelationships == 2

\* Values offered by the relationship combobox of RelationshipDialog.
DesktopTypes == {"PARENT", "SPOUSE"}

\* What the last handler of the desktop front-end did and the message box it showed.
DesktopCall(op, person_id, to_id, relationship, shown) ==
    [op |-> op, person_id |-> person_id, to_id |-> to_id,
     relationship |-> relationship, shown |-> shown]

\* f"P{n:03d}"
format_person_id(n) ==
    "P" \o (IF n < 10 THEN "00" ELSE IF n < 100 THEN "0" ELSE "") \o ToString(n)

\* generate_person_id(): MATCH (p:Person) RETURN COUNT(p) as count; P{count + 1:03d}
generate_person_id == format_person_id(Cardinality(neo4j.Person) + 1)

\* Selecting a row of the tree, which load_family_tree fills with the persons
\* of the database.
on_person_select(person_id) ==
    /\ person_id \in neo4j.Person
    /\ selected_person_id' = person_id
    /\ last' = DesktopCall("on_person_select", person_id, None, "", "")
    /\ UNCHANGED <<family_members, relationships, member_seq, rel_seq, lookups, rendered,
                   sessions, neo4j>>

\* save_person(person_data, is_edit): edit_person sets the properties of the
\* selected person; add_person_dialog creates a person under the generated id,
\* and the constraint person_id (REQUIRE p.id IS UNIQUE) refuses the CREATE of
\* an id that a person already has, which the handler reports.
save_person(is_edit) ==
    /\ IF is_edit
       THEN /\ selected_person_id /= None
            /\ last' = DesktopCall("save_person", selected_person_id, None, "",
                                   "Person saved successfully!")
            /\ UNCHANGED neo4j
       ELSE LET person_id == generate_person_id IN
            IF person_id \in neo4j.Person
            THEN /\ last' = DesktopCall("save_person", person_id, None, "",
                                        "Failed to save person")
                 /\ UNCHANGED neo4j
            ELSE /\ neo4j' = [neo4j EXCEPT !.Person = @ \cup {person_id}]
                 /\ last' = DesktopCall("save_person", person_id, None, "",
                                        "Person saved successfully!")
    /\ UNCHANGED <<family_members, relationships, member_seq, rel_seq, lookups, rendered,
                   sessions, selected_person_id>>

\* delete_person(): DETACH DELETE of the selected person, then
\* clear_person_details.
delete_person ==
    /\ selected_person_id /= None
    /\ neo4j' = [neo4j EXCEPT
                   !.Person = @ \ {selected_person_id},
                   !.relationships = {r \in @ : /\ r.from_id /= selected_person_id
                                                /\ r.to_id /= selected_person_id}]
    /\ selected_person_id' = None
    /\ last' = DesktopCall("delete_person", selected_person_id, None, "",
                           "Person deleted successfully!")
    /\ UNCHANGED <<family_members, relationships, member_seq, rel_seq, lookups, rendered,
                   sessions>>

\* add_relationship_dialog(): RelationshipDialog offers the persons other than
\* the selected one (load_persons), add() hands over from_id, to_id and
\* relationship, and save_relationship CREATEs the relationship.
save_relationship(to_id, relationship) ==
    /\ selected_person_id /= None
    /\ to_id \in neo4j.Person \ {selected_person_id}
    /\ neo4j' = [neo4j EXCEPT
                   !.relationships = @ \cup {[rel |-> neo4j.seq + 1,
                                              from_id |-> selected_person_id,
                                              to_id |-> to_id,
                                              relationship |-> relationship]},
                   !.seq = @ + 1]
    /\ last' = DesktopCall("save_relationship", selected_person_id, to_id, relationship,
                           "Relationship added successfully!")
    /\ UNCHANGED <<family_members, relationships, member_seq, rel_seq, lookups, rendered,
                   sessions, selected_person_id>>

NextDesktop ==
    \/ \E person_id \in {format_person_id(n) : n \in 1..MaxPersons} :
          on_person_select(person_id)
    \/ \E is_edit \in BOOLEAN :
          (is_edit \/ Cardinality(neo4j.Person) < MaxPersons) /\ save_person(is_edit)
    \/ delete_person
    \/ \E to_id \in {format_person_id(n) : n \in 1..MaxPersons},
          relationship \in DesktopTypes :
          neo4j.seq < MaxDesktopRelationships /\ save_relationship(to_id, relationship)

SpecDesktop == Init /\ [][NextDesktop]_vars

\* The relationships of the desktop database between persons a and b, in either
\* direction.
RelationshipsBetween(a, b) ==
    {r \in neo4j.relationships : {r.from_id, r.to_id} = {a, b}}

\* C24: in the desktop front-end at most one relationship exists between any
\* two persons, whatever save_relationship calls were made.
C24_AtMostOneRelationship ==
    \A a, b \in neo4j.Person : Cardinality(RelationshipsBetween(a, b)) <= 1

\* C25: in the desktop front-end generate_person_id returns an id no person
\* has, and adding a person is never refused because its id is in use.
C25_FreshPersonId ==
    /\ generate_person_id \notin neo4j.Person
    /\ last.op = "save_person" => last.shown /= "Failed to save person"

\* ------------------------------------------- two sessions on one account
\* Two browser sessions of one account, each a script thread with connections
\* of its own: nothing keeps the statements of one add_relationship call apart
\* from those of another, only the write lock of the database does.
MaxRaceMemberId == 2
MaxRaceRelId == 4

NextRace ==
    \/ \E u \in TxnUsers :
          /\ \A s \in Sessions : ~sessions[s].txn
          /\ AddMember(u) /\ member_seq' <= MaxRaceMemberId
    \/ \E s \in Sessions, u \in TxnUsers, f \in 1..MaxRaceMemberId, t \in 1..MaxRaceMemberId,
          ty \in TxnTypes, n \in Notes :
          /\ rel_seq + 2 <= MaxRaceRelId
          /\ add_relationship_select(s, u, f, t, ty, n)
    \/ \E s \in Sessions : add_relationship_insert_primary(s)
    \/ \E s \in Sessions : add_relationship_insert_inverse(s)
    \/ \E s \in Sessions : add_relationship_commit(s)

SpecRace == Init /\ [][NextRace]_vars

\* C26: when the steps of two add_relationship calls on the same two persons of
\* one account interleave, at most one of them succeeds: once both sessions are
\* back outside their calls, the committed table holds at most one primary and
\* at most one inverse row between the two persons (I1).
C26_InterleavedAddsKeepI1 ==
    (\A s \in Sessions : sessions[s].pc = "idle") =>
        /\ I1(relationships)
        /\ \A u \in TxnUsers, A \in 1..member_seq, B \in 1..member_seq :
              Cardinality(PrimaryEdges(EdgesOfPair(u, A, B))) <= 1

\* C27 (the pair lock is released by deletion): a delete_relationship that finds
\* its row leaves nothing for the duplicate check of add_relationship to select
\* between the two persons of that row, and an add_relationship(A, B, t) called
\* while no edge connects A and B succeeds and stores the primary edge A -> B of
\* type t, in whichever direction and of whichever type the earlier pair was.
C27_PairLockReleased ==
    [][/\ (last'.op = "delete_relationship" /\ last'.fetched /= "None") =>
             \A r \in relationships :
                 (r.user_id = last'.user_id /\ r.id = last'.a) =>
                     existing_between(r.user_id, r.from_member_id, r.to_member_id)' = {}
       /\ (last'.op = "add_relationship"
           /\ EdgesOfPair(last'.user_id, last'.a, last'.b) = {}) =>
             /\ last'.ret = "True"
             /\ \E p \in relationships' :
                   /\ p.is_primary /\ p.user_id = last'.user_id
                   /\ p.from_member_id = last'.a /\ p.to_member_id = last'.b
                   /\ p.relationship_type = last'.relationship_type]_vars

\* C27 witness: account 2 has held its pair under the ids 1 and 2 all along, so
\* id 3 was an edge between the two persons of account 1 that delete_relationship
\* removed, and the add_relationship that followed on these persons has just
\* succeeded under id 4.
C27_Witness ==
    /\ AddSucceeded
    /\ last.user_id = 1
    /\ member_ids(1) = {1, 2}
    /\ {r.id : r \in relationships} = {1, 2, 4}
    /\ \A r \in relationships : r.user_id = (IF r.id = 4 THEN 1 ELSE 2)

\* C28 (add/delete round trip): every edge a successful add_relationship stores
\* gets an id above every id handed out before, so an id of an edge that is gone
\* never designates a later edge; and delete_relationship on the id of either
\* edge the add stored gives back exactly the edge set from before the add, with
\* only the id counter changed.
C28_AddDeleteRoundTrip ==
    [][/\ \A e \in relationships' \ relationships :
             /\ rel_seq < e.id /\ e.id <= rel_seq'
             /\ relationships' \ delete_relationship_rows(e.user_id, e.id)' = relationships
       /\ \A e \in relationships' : e.id <= rel_seq'
       /\ rel_seq <= rel_seq']_vars

\* C28 witness: the pair stored last, under the ids 2 and 3, has just been deleted
\* through the id of its inverse edge, and the edge stored before it is what is
\* left.
C28_Witness ==
    /\ last.op = "delete_relationship"
    /\ last.a = 3 /\ last.fetched = "inverse" /\ last.rowcount = 2
    /\ rel_seq = 3
    /\ {r.id : r \in relationships} = {1}

\* C29: on every ledger the oldest generation and the next generation the
\* Statistics page shows are sets of persons of the scope with no person in
\* both, and no next generation is shown when the oldest generation is empty,
\* as it is when the parent edges form a cycle through all persons.
C29_GenerationTiers ==
    GenerationShown =>
        /\ rendered.oldest_generation \subseteq member_ids(rendered.user_id)
        /\ Range(rendered.next_generation) \subseteq member_ids(rendered.user_id)
        /\ rendered.oldest_generation \cap Range(rendered.next_generation) = {}
        /\ rendered.oldest_generation = {} =>
              (rendered.next_generation = <<>> /\ rendered.next_count = 0)

\* C29 witness: the page has been rendered on three persons whose primary parent
\* edges form a cycle through all of them, and shows neither tier.
C29_Witness ==
    /\ GenerationShown
    /\ rendered.user_id = 1
    /\ member_ids(1) = {1, 2, 3}
    /\ {<<r.from_member_id, r.to_member_id>> :
           r \in {x \in PrimaryEdges(relationships) : x.relationship_type = "parent"}}
          = {<<1, 2>>, <<2, 3>>, <<3, 1>>}
    /\ rendered.oldest_generation = {}
    /\ rendered.next_generation = <<>>

\* C30: the generation analysis reads only the primary edges of type 'parent'.
\* A person B who is not the to-end of any primary parent edge is shown in the
\* oldest generation, also when a primary edge child(B -> A) has put the derived
\* edge parent(A -> B) into the table, and the next generation shown contains
\* to-ends of primary parent edges only.
C30_OnlyPrimaryParentEdges ==
    GenerationShown =>
        LET u == rendered.user_id
            parents == {x \in PrimaryEdges(relationships) :
                           x.user_id = u /\ x.relationship_type = "parent"} IN
        /\ \A B \in member_ids(u) :
              (\A x \in parents : x.to_member_id /= B) => B \in rendered.oldest_generation
        /\ \A B \in Range(rendered.next_generation) :
              \E x \in parents : x.to_member_id = B

\* C30 witness: child(B -> A) is primary, parent(A -> B) is its derived edge, no
\* primary parent edge ends at B, and the page shows B in the oldest generation.
C30_Witness ==
    /\ GenerationShown
    /\ rendered.user_id = 1
    /\ \E p \in PrimaryEdges(relationships), d \in DerivedEdges(relationships) :
          /\ p.relationship_type = "child" /\ d.relationship_type = "parent"
          /\ d.linked_relationship_id = p.id
          /\ d.to_member_id = p.from_member_id
          /\ p.from_member_id \in rendered.oldest_generation
          /\ p.from_member_id \notin Range(rendered.next_generation)
====
